---- MODULE Spec2Model ----
(***************************************************************************)
(* Model of pvars.py: the PersistentDict store (load / dump / sync), the   *)
(* ModuleContext (make_var, make_dict, save, reset, configure), the        *)
(* process-wide _contexts list (get_context) and the atexit sweep          *)
(* (_clean_up).  One process runs at a time; the disk outlives it.         *)
(***************************************************************************)
EXTENDS Integers, Sequences, FiniteSets, TLC

\* ---------------------------------------------------------------- bounds
MaxCalls == 3          \* calls and restarts per behaviour of Spec
MaxSession == 6        \* calls and restarts per behaviour of SpecSession

Paths == {"p1", "p2"}  \* db_path values handed to get_context
Names == {"a", "b"}    \* variable names (identifiers)

\* ---------------------------------------------------------------- values
\* A Python value is its type and the text str() gives for it; every value
\* has the same two string fields, so any two values can be compared.
Digits == <<"0", "1", "2", "3", "4", "5", "6", "7", "8", "9">>

IntText(n) == Digits[n + 1]

IntV(n) == [t |-> "int", s |-> IntText(n)]

StrV(x) == [t |-> "str", s |-> x]

Obj == [t |-> "obj", s |-> "<Foo object>"]

None == [t |-> "none", s |-> "None"]

\* the dict {} (n = 0) or {'k': n}
DictText(n) == IF n = 0 THEN "{}" ELSE "{'k': " \o IntText(n) \o "}"

DictV(n) == [t |-> "dict", s |-> DictText(n)]

IdictV(n) == [t |-> "idict", s |-> DictText(n)]

IsDict(v) == v.t \in {"dict", "idict"}

\* Python ==: an Idict equals the dict with the same items
PyEq(v, w) == /\ v.s = w.s
              /\ (v.t = w.t \/ (IsDict(v) /\ IsDict(w)))

PyStr(v) == StrV(v.s)

IntVals == {IntV(1), IntV(2)}

\* what a lambda yields once the variable it reads is deleted: calling it
\* raises NameError
Unbound == [t |-> "unbound", s |-> "NameError"]

\* values the caller assigns to a registered variable or passes as default
CallerVals == IntVals \cup {Obj}

\* ---------------------------------------------------------------- items
\* A Python dict is the sequence of its <<key, value>> items in insertion
\* order, keys unique.
Keys(items) == {items[j][1] : j \in DOMAIN items}

Has(items, k) == k \in Keys(items)

Get(items, k) == items[CHOOSE j \in DOMAIN items : items[j][1] = k][2]

\* (mutation) an assignment to a key always adds an item
PutAppend(items, k, v) == Append(items, <<k, v>>)

\* d[k] = v
Put(items, k, v) ==
    IF Has(items, k)
    THEN [j \in DOMAIN items |-> IF items[j][1] = k THEN <<k, v>> ELSE items[j]]
    ELSE Append(items, <<k, v>>)

RECURSIVE Update(_, _)
Update(items, rows) ==
    IF rows = <<>> THEN items
    ELSE Update(Put(items, Head(rows)[1], Head(rows)[2]), Tail(rows))

\* dict equality: same keys, equal values, order irrelevant
SameMap(x, y) ==
    /\ Keys(x) = Keys(y)
    /\ \A k \in Keys(x) : PyEq(Get(x, k), Get(y, k))

\* ---------------------------------------------------------------- Format
Format == {"PICKLE", "JSON", "CSV"}

\* configure()'s default for file_format is the boolean False
NoFormat == "False"

\* dump_args: no keyword, or indent=... (a json.dump keyword only)
DumpArgs == {"none", "indent"}

\* ---------------------------------------------------------------- files
\* A file is what was written to it: the codec, the items written so far,
\* whether the codec finished, and the dump keyword that shaped the text.
\* CSV has no terminator: any prefix of its rows is a complete CSV file,
\* and the zero-byte file is the CSV file of no rows.
\* (mutation) the temporary name is the target itself: sync writes in place
TempNameInPlace(path) == path

\* tempname = filename + ".tmp"
TempName(path) == path \o ".tmp"

FileNames == Paths \cup {TempName(p) : p \in Paths}

NoFile == [tag |-> "nofile", rows |-> <<>>, done |-> TRUE, args |-> "none"]

EmptyFile == [tag |-> "csv", rows |-> <<>>, done |-> TRUE, args |-> "none"]

\* a file whose bytes no loader accepts, such as a truncated pickle
Garbage == [tag |-> "garbage", rows |-> <<>>, done |-> TRUE, args |-> "none"]

FileTag(fmt) == CASE fmt = "PICKLE" -> "pickle"
                  [] fmt = "JSON" -> "json"
                  [] OTHER -> "csv"

\* can dump() encode this value
CanEncode(fmt, v) == CASE fmt = "JSON" -> v.t \in {"int", "str", "dict", "idict"}
                       [] fmt = "PICKLE" -> v.t # "idict"
                       [] OTHER -> TRUE

\* the value as the codec writes it
EncVal(fmt, v) == CASE fmt = "JSON" -> (IF v.t = "idict" THEN [v EXCEPT !.t = "dict"] ELSE v)
                    [] fmt = "PICKLE" -> v
                    [] OTHER -> PyStr(v)

\* the file dump() produces for a whole mapping
Encode(fmt, args, items) ==
    [tag |-> FileTag(fmt),
     rows |-> [j \in DOMAIN items |-> <<items[j][1], EncVal(fmt, items[j][2])>>],
     done |-> TRUE,
     args |-> IF fmt = "JSON" THEN args ELSE "none"]

\* load(): pickle.load, json.load, csv.reader in turn, each in "r" and "rb";
\* the first loader that does not raise feeds update().  ok = FALSE is the
\* ValueError raised when every loader failed.
Load(file) ==
    CASE file.tag = "pickle" /\ file.done -> [ok |-> TRUE, rows |-> file.rows]
      [] file.tag = "json" /\ file.done -> [ok |-> TRUE, rows |-> file.rows]
      [] file.tag = "csv" -> [ok |-> TRUE, rows |-> file.rows]
      [] OTHER -> [ok |-> FALSE, rows |-> <<>>]

\* ---------------------------------------------------------------- state
VARIABLES
    fs,         \* [FileNames -> file]: every target file and its ".tmp" sibling
    contexts,   \* the _contexts list of the running process
    pc,         \* where the process is: idle, inside sync, sweeping, exited
    call,       \* the library call in progress
    res,        \* outcome of the last completed call
    pre,        \* the target file as it was when the last save or sync() began
    swept,      \* contexts whose save() the running sweep has attempted
    committed,  \* per path, the mapping the last successful sync() wrote
    dirty,      \* paths whose context has run save or reset in this process
    prev,       \* the file and the db as the last completed save() left them
    ncalls,     \* calls made and processes restarted so far
    limit,      \* the most calls and restarts this behaviour makes
    sweeps      \* how often _clean_up has been invoked in the running process

vars == <<fs, contexts, pc, call, res, pre, swept, committed, dirty, prev, ncalls, limit,
          sweeps>>

NoCall == [op |-> "none", ctx |-> 0, k |-> 0, again |-> FALSE]

\* the keywords of a call: the names given, and the value of each
Kw(given, a, f, d) == [given |-> given, auto_save |-> a, file_format |-> f, dump_args |-> d]

\* a call without keywords
NoKwargs == Kw({}, FALSE, NoFormat, "none")

Result(op, status, exc, ctx, arg, val, dflt) ==
    [op |-> op, status |-> status, exc |-> exc, ctx |-> ctx, arg |-> arg,
     val |-> val, dflt |-> dflt, again |-> FALSE, cfg |-> NoKwargs]

NoResult == Result("none", "ok", "", 0, "", None, None)

\* a call is running: it has no outcome yet
Pending == Result("pending", "ok", "", 0, "", None, None)

\* a file an earlier process left behind with two saved variables
SavedFile == Encode("JSON", "none", << <<"a", IntV(1)>>, <<"b", IntV(2)>> >>)

InitCommon ==
    /\ contexts = <<>>
    /\ pc = "idle"
    /\ call = NoCall
    /\ res = NoResult
    /\ pre = NoFile
    /\ swept = {}
    /\ committed = [p \in Paths |-> [some |-> FALSE, items |-> <<>>]]
    /\ dirty = {}
    /\ prev = [file |-> NoFile, db |-> <<>>]
    /\ ncalls = 0
    /\ sweeps = 0

\* the first process starts with a file at p1 (empty, or left by an earlier
\* process) and with no file or an unreadable file at p2; no temporary files
Init ==
    /\ \E f1 \in {EmptyFile, SavedFile}, f2 \in {NoFile, Garbage} :
          fs = [n \in FileNames |-> IF n = "p1" THEN f1 ELSE IF n = "p2" THEN f2 ELSE NoFile]
    /\ InitCommon
    /\ limit = MaxCalls

Ctxs == DOMAIN contexts

CanCall == pc = "idle" /\ ncalls < limit

Ghosts == <<pre, swept, committed, dirty, prev, limit, sweeps>>

\* ---------------------------------------------------------------- PersistentDict
\* PersistentDict.__init__: raises when the file is absent, swallows the
\* ValueError of load() and then starts empty.
FileAvailable(file) == file # NoFile

OpenDict(file) == IF Load(file).ok THEN Update(<<>>, Load(file).rows) ELSE <<>>

\* why dump() raises before writing anything, "" when it does not
DumpRefuses(fmt, args) ==
    CASE fmt = NoFormat -> "AttributeError"
      [] fmt \in {"PICKLE", "CSV"} /\ args # "none" -> "TypeError"
      [] OTHER -> ""

\* the temporary file after the first k items have been written
Written(fmt, args, items, k) ==
    [tag |-> FileTag(fmt),
     rows |-> [j \in 1..k |-> <<items[j][1], EncVal(fmt, items[j][2])>>],
     done |-> (k = Len(items) \/ fmt = "CSV"),
     args |-> IF fmt = "JSON" THEN args ELSE "none"]

\* sync(), last line: shutil.move(tempname, self.file_name)
MoveTemp(files, path) ==
    [n \in FileNames |-> IF n = path THEN files[TempName(path)]
                         ELSE IF n = TempName(path) THEN NoFile
                         ELSE files[n]]

\* (mutation) the failure path commits what was written so far
RemoveTempCommits(files, path) == MoveTemp(files, path)

\* sync(), except clause: os.remove(tempname)
RemoveTemp(files, path) == [files EXCEPT ![TempName(path)] = NoFile]

\* ---------------------------------------------------------------- ModuleContext
\* auto_save=a, file_format=f and the dump keywords d, all given
Config(a, f, d) == Kw({"auto_save", "file_format"}, a, f, d)

\* the keyword sets callers pass to get_context and configure: none at all,
\* a format with auto_save, and a format with a dump keyword
Configs == {NoKwargs}
           \cup {Config(TRUE, f, "none") : f \in Format}
           \cup {Kw({"file_format"}, FALSE, "JSON", "indent"), Config(TRUE, "CSV", "indent")}

\* (mutation) a keyword that is not given leaves the attribute as it is
configureGiven(ctx, cfg) ==
    [ctx EXCEPT !.auto_save = IF "auto_save" \in cfg.given THEN cfg.auto_save ELSE @,
                !.file_format = IF "file_format" \in cfg.given THEN cfg.file_format ELSE @,
                !.dump_args = cfg.dump_args]

\* configure(*, auto_save=False, file_format=False, **dump_args): a keyword
\* that is not given takes its default, and dump_args is replaced whole
configure(ctx, cfg) ==
    [ctx EXCEPT !.auto_save = IF "auto_save" \in cfg.given THEN cfg.auto_save ELSE FALSE,
                !.file_format = IF "file_format" \in cfg.given THEN cfg.file_format
                                ELSE NoFormat,
                !.dump_args = cfg.dump_args]

\* ModuleContext.__init__
NewContext(path, file) ==
    [path |-> path, auto_save |-> TRUE, file_format |-> "PICKLE", dump_args |-> "none",
     db |-> OpenDict(file), pvar_index |-> <<>>]

\* (mutation) the search of _contexts never finds a context
FindNothing(list, path) == 0

\* "for ctx in _contexts: if db_path == ctx.path: return ctx": the index of
\* the first context with this path, 0 when the loop finds none
Find(list, path) ==
    IF \E i \in DOMAIN list : list[i].path = path
    THEN CHOOSE i \in DOMAIN list : /\ list[i].path = path
                                    /\ \A j \in 1..(i - 1) : list[j].path # path
    ELSE 0

\* (mutation) a repeated request configures the context it finds
FoundReconfigured(ctx, cfg) == configure(ctx, cfg)

\* "if db_path == ctx.path: return ctx": config_params is not looked at
Found(ctx, cfg) == ctx

\* get_context(abs_path=path, **cfg); the outcome records the keywords and
\* whether the path already had a context
GetContext(path, cfg) ==
    /\ CanCall
    /\ ncalls' = ncalls + 1
    /\ IF Find(contexts, path) # 0
       THEN /\ res' = [Result("get_context", "ok", "", Find(contexts, path), path, None, None)
                          EXCEPT !.cfg = cfg, !.again = TRUE]
            /\ contexts' = [contexts EXCEPT ![Find(contexts, path)] = Found(@, cfg)]
       ELSE IF ~FileAvailable(fs[path])
       THEN /\ res' = [Result("get_context", "raise", "Exception", 0, path, None, None)
                          EXCEPT !.cfg = cfg]
            /\ UNCHANGED contexts
       ELSE /\ contexts' = Append(contexts, configure(NewContext(path, fs[path]), cfg))
            /\ res' = [Result("get_context", "ok", "", Len(contexts) + 1, path, None, None)
                          EXCEPT !.cfg = cfg]
    /\ UNCHANGED <<fs, pc, call, Ghosts>>

\* pvar_index[name] = PVar(name, callback): a re-registered name keeps its place
Register(index, name, kind, val) ==
    IF \E j \in DOMAIN index : index[j].name = name
    THEN [j \in DOMAIN index |-> IF index[j].name = name
                                  THEN [name |-> name, kind |-> kind, val |-> val]
                                  ELSE index[j]]
    ELSE Append(index, [name |-> name, kind |-> kind, val |-> val])

Registered(ctx, name) == \E j \in DOMAIN ctx.pvar_index : ctx.pvar_index[j].name = name

\* The source text of a callback, as far as make_var reads it: whether it
\* holds "def" or "lambda", and the identifier the regex finds before ")"
\* ("" when the regex finds none).
Lambda(name) == [kind |-> "lambda", ident |-> name]

Callbacks == {Lambda(n) : n \in Names \cup {""}}
             \cup {[kind |-> "def", ident |-> ""], [kind |-> "other", ident |-> ""]}

\* what make_var returns
StoredOrDefault(db, name, default) == IF Has(db, name) THEN Get(db, name) ELSE default

\* make_var(default, callback); the caller keeps the result in the variable
\* the callback reads, so the callback yields it until the caller assigns.
MakeVar(i, cb, default) ==
    /\ CanCall
    /\ ncalls' = ncalls + 1
    /\ IF cb.kind = "def"
       THEN /\ res' = Result("make_var", "raise", "Exception", i, "", None, default)
            /\ UNCHANGED contexts
       ELSE IF cb.kind # "lambda" \/ cb.ident = ""
       THEN /\ res' = Result("make_var", "raise", "TypeError", i, "", None, default)
            /\ UNCHANGED contexts
       ELSE LET out == StoredOrDefault(contexts[i].db, cb.ident, default)
            IN /\ contexts' = [contexts EXCEPT ![i].pvar_index =
                                   Register(@, cb.ident, "var", out)]
               /\ res' = Result("make_var", "ok", "", i, cb.ident, out, default)
    /\ UNCHANGED <<fs, pc, call, Ghosts>>

\* dict(x) inside Idict.__init__: a dict is copied, "" gives {}, any other
\* string raises ValueError, any other value raises TypeError
DictOf(v) == CASE IsDict(v) -> [ok |-> TRUE, exc |-> "", val |-> [v EXCEPT !.t = "idict"]]
               [] v.t = "str" /\ v.s = "" -> [ok |-> TRUE, exc |-> "", val |-> IdictV(0)]
               [] v.t = "str" -> [ok |-> FALSE, exc |-> "ValueError", val |-> None]
               [] OTHER -> [ok |-> FALSE, exc |-> "TypeError", val |-> None]

\* make_dict(default, name)
MakeDict(i, name, default) ==
    /\ CanCall
    /\ ncalls' = ncalls + 1
    /\ LET made == DictOf(StoredOrDefault(contexts[i].db, name, default))
       IN IF made.ok
          THEN /\ contexts' = [contexts EXCEPT ![i].pvar_index =
                                   Register(@, name, "dict", made.val)]
               /\ res' = Result("make_dict", "ok", "", i, name, made.val, default)
          ELSE /\ res' = Result("make_dict", "raise", made.exc, i, name, None, default)
               /\ UNCHANGED contexts
    /\ UNCHANGED <<fs, pc, call, Ghosts>>

\* the caller assigns the variable a registered lambda reads
SetVar(i, name, v) ==
    /\ CanCall
    /\ ncalls' = ncalls + 1
    /\ \E j \in DOMAIN contexts[i].pvar_index :
          /\ contexts[i].pvar_index[j].name = name
          /\ contexts[i].pvar_index[j].kind = "var"
          /\ contexts[i].pvar_index[j].val # v
          /\ contexts' = [contexts EXCEPT ![i].pvar_index[j].val = v]
    /\ res' = Result("assign", "ok", "", i, name, v, None)
    /\ UNCHANGED <<fs, pc, call, Ghosts>>

\* configure(**cfg) called by the caller
Configure(i, cfg) ==
    /\ CanCall
    /\ ncalls' = ncalls + 1
    /\ contexts' = [contexts EXCEPT ![i] = configure(@, cfg)]
    /\ res' = Result("configure", "ok", "", i, "", None, None)
    /\ UNCHANGED <<fs, pc, call, Ghosts>>

\* all()
all(i) == contexts[i].db

\* del of the variable a registered lambda reads
DelVar(i, name) ==
    /\ CanCall
    /\ ncalls' = ncalls + 1
    /\ \E j \in DOMAIN contexts[i].pvar_index :
          /\ contexts[i].pvar_index[j].name = name
          /\ contexts[i].pvar_index[j].kind = "var"
          /\ contexts[i].pvar_index[j].val # Unbound
          /\ contexts' = [contexts EXCEPT ![i].pvar_index[j].val = Unbound]
    /\ res' = Result("del", "ok", "", i, name, None, None)
    /\ UNCHANGED <<fs, pc, call, Ghosts>>

\* some pvar.value() raises
CallbackRaises(index) == \E j \in DOMAIN index : index[j].val = Unbound

\* (mutation) save() does not run its loop
SaveNone(db, index) == db

\* (mutation) save() builds the mapping anew from the registered variables
SaveFresh(db, index) == [j \in DOMAIN index |-> <<index[j].name, index[j].val>>]

\* the loop of save(): db[name] = pvar.value() for every pvar, in order; a
\* callback that raises ends the loop, the assignments before it are made
RECURSIVE SaveAll(_, _)
SaveAll(db, index) ==
    IF index = <<>> \/ Head(index).val = Unbound THEN db
    ELSE SaveAll(Put(db, Head(index).name, Head(index).val), Tail(index))

\* sync() begins on behalf of op: nothing is written yet
BeginSync(i, op, again) ==
    /\ pc' = "open"
    /\ call' = [op |-> op, ctx |-> i, k |-> 0, again |-> again]
    /\ pre' = fs[contexts[i].path]
    /\ dirty' = dirty \cup {contexts[i].path}

\* the loop of save() raised: sync() is not reached
LoopRaises(i, op, again) ==
    /\ res' = [Result(op, "raise", "NameError", i, "loop", None, None) EXCEPT !.again = again]
    /\ pre' = fs[contexts[i].path]
    /\ dirty' = dirty \cup {contexts[i].path}
    /\ UNCHANGED <<pc, call>>

\* save()
Save(i) ==
    /\ CanCall
    /\ ncalls' = ncalls + 1
    /\ contexts' = [contexts EXCEPT ![i].db = SaveAll(@, contexts[i].pvar_index)]
    /\ IF CallbackRaises(contexts[i].pvar_index)
       THEN /\ LoopRaises(i, "save", res.op = "save" /\ res.ctx = i)
            /\ IF res.op = "save" /\ res.ctx = i
               THEN UNCHANGED prev
               ELSE prev' = [file |-> fs[contexts[i].path], db |-> contexts'[i].db]
       ELSE /\ BeginSync(i, "save", res.op = "save" /\ res.ctx = i)
            /\ res' = Pending
            /\ UNCHANGED prev
    /\ UNCHANGED <<fs, swept, committed, limit, sweeps>>

\* Idict.__setitem__("k", n), then the parent's save()
IdictSetItem(i, name, n) ==
    /\ CanCall
    /\ ncalls' = ncalls + 1
    /\ \E j \in DOMAIN contexts[i].pvar_index :
          /\ contexts[i].pvar_index[j].name = name
          /\ contexts[i].pvar_index[j].kind = "dict"
          /\ LET index == [contexts[i].pvar_index EXCEPT ![j].val = IdictV(n)]
             IN /\ contexts' = [contexts EXCEPT ![i].pvar_index = index,
                                                ![i].db = SaveAll(@, index)]
                /\ IF CallbackRaises(index)
                   THEN LoopRaises(i, "setitem", FALSE)
                   ELSE /\ BeginSync(i, "setitem", FALSE)
                        /\ res' = Pending
    /\ UNCHANGED <<fs, swept, committed, prev, limit, sweeps>>

\* what "for var in self.db: del self.db[var]" leaves of the db: the first
\* key is deleted and the iterator then raises RuntimeError
ResetLoop(db) == IF db = <<>> THEN [ok |-> TRUE, db |-> db]
                 ELSE [ok |-> FALSE, db |-> Tail(db)]

\* reset(): only a loop that does not raise reaches sync()
Reset(i) ==
    /\ CanCall
    /\ ncalls' = ncalls + 1
    /\ contexts' = [contexts EXCEPT ![i].db = ResetLoop(@).db]
    /\ IF ResetLoop(contexts[i].db).ok
       THEN /\ BeginSync(i, "reset", FALSE)
            /\ res' = Pending
       ELSE /\ res' = Result("reset", "raise", "RuntimeError", i, "", None, None)
            /\ dirty' = dirty \cup {contexts[i].path}
            /\ UNCHANGED <<pc, call, pre>>
    /\ UNCHANGED <<fs, swept, committed, prev, limit, sweeps>>

\* ---------------------------------------------------------------- sync()
\* control returns from sync() to the call that ran it, the outcome records
\* the step of sync() that ended it; inside _clean_up a failed save() is
\* re-raised as RuntimeError, which leaves the loop
Return(status, exc, file) ==
    /\ IF call.op = "cleanup"
       THEN IF status = "ok"
            THEN /\ pc' = "sweep"
                 /\ call' = [call EXCEPT !.ctx = @ + 1, !.k = 0]
                 /\ UNCHANGED res
            ELSE /\ pc' = "exited"
                 /\ call' = NoCall
                 /\ res' = Result("cleanup", "raise", "RuntimeError", call.ctx, "", None, None)
       ELSE /\ pc' = "idle"
            /\ call' = NoCall
            /\ res' = [Result(call.op, status, exc, call.ctx, pc, None, None)
                          EXCEPT !.again = call.again]
    /\ IF call.op = "save" /\ ~call.again
       THEN prev' = [file |-> file, db |-> contexts[call.ctx].db]
       ELSE UNCHANGED prev

\* open(tempname, 'wb' or 'w'): the temporary file is created or truncated
SyncOpen ==
    /\ pc = "open"
    /\ fs' = [fs EXCEPT ![TempName(contexts[call.ctx].path)] = EmptyFile]
    /\ pc' = "write"
    /\ UNCHANGED <<contexts, call, res, Ghosts, ncalls>>

\* open(tempname, ...) raises OSError: the except clause removes a temporary
\* file an earlier process left (os.remove raises when there is none), then
\* the finally clause reads fileobj, which was never bound
SyncOpenFails ==
    /\ pc = "open"
    /\ fs' = RemoveTemp(fs, contexts[call.ctx].path)
    /\ Return("raise", "UnboundLocalError", fs[contexts[call.ctx].path])
    /\ UNCHANGED <<contexts, pre, swept, committed, dirty, limit, sweeps, ncalls>>

\* a write of dump() raises OSError (disk full): the except clause removes
\* the temporary file and re-raises
SyncWriteFails ==
    /\ pc = "write"
    /\ fs' = RemoveTemp(fs, contexts[call.ctx].path)
    /\ Return("raise", "OSError", fs[contexts[call.ctx].path])
    /\ UNCHANGED <<contexts, pre, swept, committed, dirty, limit, sweeps, ncalls>>

\* dump(fileobj), one item at a time; when it raises, the except clause
\* removes the temporary file and re-raises
SyncWrite ==
    /\ pc = "write"
    /\ LET ctx == contexts[call.ctx]
           fmt == ctx.file_format
           items == ctx.db
           k == call.k
       IN IF DumpRefuses(fmt, ctx.dump_args) # ""
          THEN /\ fs' = RemoveTemp(fs, ctx.path)
               /\ Return("raise", DumpRefuses(fmt, ctx.dump_args), fs[ctx.path])
          ELSE IF k < Len(items) /\ ~CanEncode(fmt, items[k + 1][2])
          THEN /\ fs' = RemoveTemp(fs, ctx.path)
               /\ Return("raise", IF fmt = "JSON" THEN "TypeError" ELSE "AttributeError",
                         fs[ctx.path])
          ELSE IF k + 1 < Len(items)
          THEN /\ fs' = [fs EXCEPT ![TempName(ctx.path)] =
                                       Written(fmt, ctx.dump_args, items, k + 1)]
               /\ call' = [call EXCEPT !.k = k + 1]
               /\ UNCHANGED <<pc, res, prev>>
          ELSE /\ fs' = [fs EXCEPT ![TempName(ctx.path)] =
                                       Written(fmt, ctx.dump_args, items, Len(items))]
               /\ pc' = "move"
               /\ UNCHANGED <<call, res, prev>>
    /\ UNCHANGED <<contexts, pre, swept, committed, dirty, limit, sweeps, ncalls>>

\* shutil.move(tempname, self.file_name): one rename, then sync() returns
SyncMove ==
    /\ pc = "move"
    /\ LET path == contexts[call.ctx].path
       IN /\ fs' = MoveTemp(fs, path)
          /\ committed' = [committed EXCEPT ![path] =
                              [some |-> TRUE, items |-> contexts[call.ctx].db]]
          /\ Return("ok", "", MoveTemp(fs, path)[path])
    /\ UNCHANGED <<contexts, pre, swept, dirty, limit, sweeps, ncalls>>

\* shutil.move raises OSError (the target cannot be replaced): the call is
\* outside the try statement, nothing is cleaned up
SyncMoveFails ==
    /\ pc = "move"
    /\ Return("raise", "OSError", fs[contexts[call.ctx].path])
    /\ UNCHANGED <<fs, contexts, pre, swept, committed, dirty, limit, sweeps, ncalls>>

\* ---------------------------------------------------------------- _clean_up
\* normal exit (or SIGINT, whose handler calls exit()): atexit runs _clean_up
Exit ==
    /\ pc = "idle"
    /\ pc' = "sweep"
    /\ call' = [op |-> "cleanup", ctx |-> 1, k |-> 0, again |-> FALSE]
    /\ swept' = {}
    /\ sweeps' = sweeps + 1
    /\ res' = Result("exit", "ok", "", 0, "", None, None)
    /\ UNCHANGED <<fs, contexts, pre, committed, dirty, prev, limit, ncalls>>

\* _clean_up is invoked once more after it has ended (the module was
\* reloaded, so atexit holds it twice, or a caller ran it before the exit
\* hook does): the function keeps no record of having run
CleanUpAgain ==
    /\ pc = "exited"
    /\ res.op = "cleanup"
    /\ sweeps = 1
    /\ ncalls < limit
    /\ ncalls' = ncalls + 1
    /\ pc' = "sweep"
    /\ call' = [op |-> "cleanup", ctx |-> 1, k |-> 0, again |-> FALSE]
    /\ swept' = {}
    /\ sweeps' = sweeps + 1
    /\ res' = Result("exit", "ok", "", 0, "", None, None)
    /\ UNCHANGED <<fs, contexts, pre, committed, dirty, prev, limit>>

\* one turn of "for context in _contexts"
Sweep ==
    /\ pc = "sweep"
    /\ IF call.ctx > Len(contexts)
       THEN /\ pc' = "exited"
            /\ call' = NoCall
            /\ res' = Result("cleanup", "ok", "", 0, "", None, None)
            /\ UNCHANGED <<contexts, pre, swept, dirty>>
       ELSE IF contexts[call.ctx].auto_save
       THEN /\ contexts' = [contexts EXCEPT ![call.ctx].db =
                               SaveAll(@, contexts[call.ctx].pvar_index)]
            /\ swept' = swept \cup {call.ctx}
            /\ IF CallbackRaises(contexts[call.ctx].pvar_index)
               THEN /\ pc' = "exited"
                    /\ call' = NoCall
                    /\ res' = Result("cleanup", "raise", "RuntimeError", call.ctx, "loop",
                                     None, None)
                    /\ pre' = fs[contexts[call.ctx].path]
                    /\ dirty' = dirty \cup {contexts[call.ctx].path}
               ELSE /\ BeginSync(call.ctx, "cleanup", FALSE)
                    /\ UNCHANGED res
       ELSE /\ call' = [call EXCEPT !.ctx = @ + 1]
            /\ UNCHANGED <<pc, contexts, res, pre, swept, dirty>>
    /\ UNCHANGED <<fs, committed, prev, limit, sweeps, ncalls>>

\* ---------------------------------------------------------------- process
\* the process is killed (or the machine stops) in the middle of a call:
\* nothing more runs
Crash ==
    /\ pc \in {"open", "write", "move", "sweep"}
    /\ pc' = "exited"
    /\ call' = NoCall
    /\ res' = Result("crash", "ok", "", call.ctx, pc, None, None)
    /\ UNCHANGED <<fs, contexts, Ghosts, ncalls>>

\* a new process starts: the module is imported afresh, _contexts = []
Restart ==
    /\ pc = "exited"
    /\ ncalls < limit
    /\ ncalls' = ncalls + 1
    /\ pc' = "idle"
    /\ contexts' = <<>>
    /\ call' = NoCall
    /\ swept' = {}
    /\ dirty' = {}
    /\ sweeps' = 0
    /\ res' = NoResult
    /\ UNCHANGED <<fs, pre, committed, prev, limit>>

\* ---------------------------------------------------------------- specifications
\* every call with every input
Next ==
    \/ \E path \in Paths, cfg \in Configs : GetContext(path, cfg)
    \/ \E i \in Ctxs, cb \in Callbacks, default \in CallerVals : MakeVar(i, cb, default)
    \/ \E i \in Ctxs, name \in Names, n \in 0..1 : MakeDict(i, name, DictV(n))
    \/ \E i \in Ctxs, name \in Names, v \in CallerVals : SetVar(i, name, v)
    \/ \E i \in Ctxs, name \in Names : DelVar(i, name)
    \/ \E i \in Ctxs, name \in Names, n \in 1..2 : IdictSetItem(i, name, n)
    \/ \E i \in Ctxs, cfg \in Configs : Configure(i, cfg)
    \/ \E i \in Ctxs : Save(i)
    \/ \E i \in Ctxs : Reset(i)
    \/ SyncOpen
    \/ SyncOpenFails
    \/ SyncWrite
    \/ SyncWriteFails
    \/ SyncMove
    \/ SyncMoveFails
    \/ Exit
    \/ Sweep
    \/ CleanUpAgain
    \/ Crash
    \/ Restart

Spec == Init /\ [][Next]_vars

\* One storage location over several process lifetimes: a context at p1
\* with a format and auto_save, integer and dict variables that are assigned
\* and deleted, save, exit and restart, on a disk that does not fail; more
\* calls per behaviour than Spec makes.
InitSession ==
    /\ fs = [n \in FileNames |-> IF n = "p1" THEN EmptyFile ELSE NoFile]
    /\ InitCommon
    /\ limit = MaxSession

NextSession ==
    \/ \E f \in Format : GetContext("p1", Config(TRUE, f, "none"))
    \/ \E i \in Ctxs, name \in Names, default \in IntVals : MakeVar(i, Lambda(name), default)
    \/ \E i \in Ctxs, n \in 0..1 : MakeDict(i, "a", DictV(n))
    \/ \E i \in Ctxs, name \in Names, v \in IntVals : SetVar(i, name, v)
    \/ \E i \in Ctxs, name \in Names : DelVar(i, name)
    \/ \E i \in Ctxs : Save(i)
    \/ SyncOpen
    \/ SyncWrite
    \/ SyncMove
    \/ Exit
    \/ Sweep
    \/ Restart

SpecSession == InitSession /\ [][NextSession]_vars

\* ---------------------------------------------------------------- claims
PathOf(i) == contexts[i].path

SyncRunning == pc \in {"open", "write", "move"}

\* the file dump() writes for the context's db under its configuration
FileOf(ctx) == Encode(ctx.file_format, ctx.dump_args, ctx.db)

\* C1: while sync() runs, and after a crash between any two of its steps,
\* the target file is the one it was when sync() began; once sync() has
\* returned, it is the complete encoding of the mapping; a target file is
\* never a partial write.
C1_AtomicCommit ==
    /\ SyncRunning => fs[PathOf(call.ctx)] = pre
    /\ (res.op = "crash" /\ res.arg \in {"open", "write", "move"})
          => fs[PathOf(res.ctx)] = pre
    /\ (res.op \in {"save", "setitem", "reset"} /\ res.status = "ok")
          => fs[PathOf(res.ctx)] = FileOf(contexts[res.ctx])
    /\ \A p \in Paths : fs[p].done

\* a crash hit sync() while the temporary file held part of the new mapping
\* and the target held a mapping committed earlier
C1_Witness ==
    /\ res.op = "crash"
    /\ res.arg = "write"
    /\ ~fs[TempName(PathOf(res.ctx))].done
    /\ fs[PathOf(res.ctx)] = SavedFile

\* the db holds something dump() cannot write under the context's configuration
Unencodable(ctx) ==
    \/ DumpRefuses(ctx.file_format, ctx.dump_args) # ""
    \/ \E j \in DOMAIN ctx.db : ~CanEncode(ctx.file_format, ctx.db[j][2])

\* C2: a sync() whose encode step fails (run by save(), by an item write of
\* an Idict or by reset()) raises to the caller and leaves the target file
\* exactly as it was before the call.
C2_EncodeFailureKeepsFile ==
    (/\ res.op \in {"save", "setitem", "reset"}
     /\ res.exc # "RuntimeError"
     /\ Unencodable(contexts[res.ctx]))
        => (res.status = "raise" /\ fs[PathOf(res.ctx)] = pre)

\* save() under JSON met a value JSON cannot represent and raised
C2_Witness ==
    /\ res.op = "save"
    /\ res.status = "raise"
    /\ res.exc = "TypeError"
    /\ contexts[res.ctx].file_format = "JSON"
    /\ \E j \in DOMAIN contexts[res.ctx].db : contexts[res.ctx].db[j][2] = Obj

\* C7: no two contexts of _contexts have the same path, and a get_context
\* that returns gives the context of the path it was asked for.
C7_Dedup ==
    /\ \A i, j \in Ctxs : contexts[i].path = contexts[j].path => i = j
    /\ (res.op = "get_context" /\ res.status = "ok")
          => (res.ctx \in Ctxs /\ contexts[res.ctx].path = res.arg)

\* with two contexts in the list, a repeated request got the first one back
C7_Witness ==
    /\ Len(contexts) = 2
    /\ res.op = "get_context"
    /\ res.status = "ok"
    /\ res.ctx = 1

\* C10: a save() that directly follows a save() of the same context leaves
\* the target file and the in-memory db as the first save() left them.
C10_SaveTwice ==
    (res.op = "save" /\ res.again)
        => (/\ fs[PathOf(res.ctx)] = prev.file
            /\ contexts[res.ctx].db = prev.db)

\* the second of two successful saves of a registered variable returned
C10_Witness ==
    /\ res.op = "save"
    /\ res.again
    /\ res.status = "ok"
    /\ contexts[res.ctx].pvar_index # <<>>
    /\ fs[PathOf(res.ctx)] # EmptyFile

\* C3: a get_context on a path that has no file yet gives a context, and a
\* make_var in a process that has not yet saved returns, for a name the
\* last save() committed, the value that save() committed.
C3_PersistsAcrossRestart ==
    /\ (res.op = "get_context" /\ fs[res.arg] = NoFile) => res.status = "ok"
    /\ (/\ res.op = "make_var"
        /\ res.arg \in Names
        /\ PathOf(res.ctx) \notin dirty
        /\ committed[PathOf(res.ctx)].some
        /\ Has(committed[PathOf(res.ctx)].items, res.arg))
          => (/\ res.status = "ok"
              /\ PyEq(res.val, Get(committed[PathOf(res.ctx)].items, res.arg)))

\* C4: a get_context on a path at which no file exists succeeds with an
\* empty mapping and creates no file.
C4_OpensAbsentFile ==
    (res.op = "get_context" /\ fs[res.arg] = NoFile)
        => (/\ res.status = "ok"
            /\ res.ctx \in Ctxs
            /\ all(res.ctx) = <<>>)

\* the str() text of a dict: what a dict variable saved under CSV reloads as
IsDictText(v) == v.t = "str" /\ v.s \in {DictText(n) : n \in 0..2}

\* C5: a registration whose name can be derived returns the stored value
\* when the name is a key of the store and the default otherwise, and
\* records the name; for make_dict, when what is stored is a dict variable.
C5_LoadPrecedence ==
    (/\ res.op \in {"make_var", "make_dict"}
     /\ res.arg \in Names
     /\ (res.op = "make_dict" /\ Has(all(res.ctx), res.arg))
           => (IsDict(Get(all(res.ctx), res.arg)) \/ IsDictText(Get(all(res.ctx), res.arg))))
        => (/\ res.status = "ok"
            /\ Registered(contexts[res.ctx], res.arg)
            /\ PyEq(res.val, StoredOrDefault(all(res.ctx), res.arg, res.dflt)))

\* C6: after reset() of a context with a usable format, all() is empty and
\* the target file encodes the empty mapping, however many keys there were.
C6_ResetEmpties ==
    (/\ res.op = "reset"
     /\ DumpRefuses(contexts[res.ctx].file_format, contexts[res.ctx].dump_args) = "")
        => (/\ res.status = "ok"
            /\ all(res.ctx) = <<>>
            /\ fs[PathOf(res.ctx)] = Encode(contexts[res.ctx].file_format,
                                            contexts[res.ctx].dump_args, <<>>))

\* C8: when the sweep has ended, save() has been attempted on every context
\* whose auto_save is true.
C8_SweepAttemptsAll ==
    (pc = "exited" /\ res.op = "cleanup")
        => \A i \in Ctxs : contexts[i].auto_save => i \in swept

\* C9: the file a successful save() wrote loads as a mapping equal to the
\* db that was written, under each format.
C9_RoundTrip ==
    (res.op = "save" /\ res.status = "ok")
        => SameMap(OpenDict(fs[PathOf(res.ctx)]), all(res.ctx))

\* sync() was reached and has returned or raised
SyncReturned == res.op \in {"save", "setitem", "reset"} /\ res.arg \in {"open", "write", "move"}

\* C11: once a sync() has returned, whether it succeeded or raised, the
\* target file has no ".tmp" sibling.
C11_NoTempLeft == SyncReturned => fs[TempName(PathOf(res.ctx))] = NoFile

\* C12: a get_context that has to open a file no loader accepts raises, and
\* the list gets no context for that path.
C12_UndecodableFileFails ==
    (/\ res.op = "get_context"
     /\ ~res.again
     /\ FileAvailable(fs[res.arg])
     /\ ~Load(fs[res.arg]).ok)
        => (res.status = "raise" /\ \A i \in Ctxs : contexts[i].path # res.arg)

\* C13: a get_context for a path that already has a context returns that
\* context and changes nothing of it (nor of any other context), whatever
\* keywords the call passes.
C13_FirstConfigWins ==
    [][(res'.op = "get_context" /\ res'.again /\ ncalls' = ncalls + 1)
          => (/\ res'.status = "ok"
              /\ res'.ctx \in Ctxs
              /\ contexts[res'.ctx].path = res'.arg
              /\ contexts' = contexts)]_vars

\* a repeated get_context passed a format and an auto_save flag that both
\* differ from the ones the context has
C13_Witness ==
    /\ res.op = "get_context"
    /\ res.again
    /\ res.cfg.given = {"auto_save", "file_format"}
    /\ contexts[res.ctx].file_format # res.cfg.file_format
    /\ contexts[res.ctx].auto_save # res.cfg.auto_save

\* the file holds, under this name, the value as the context's codec writes it
FileHolds(ctx, file, name, v) ==
    \E r \in DOMAIN file.rows : file.rows[r] = <<name, EncVal(ctx.file_format, v)>>

\* C14: once an item write of a registered Idict has returned without
\* raising, the db and the committed file hold, under the registered name,
\* the current content of every Idict registered in the context.
C14_IdictAutoSaves ==
    (res.op = "setitem" /\ res.status = "ok")
        => \A j \in DOMAIN contexts[res.ctx].pvar_index :
              LET pvar == contexts[res.ctx].pvar_index[j]
              IN pvar.kind = "dict"
                    => (/\ Has(all(res.ctx), pvar.name)
                        /\ Get(all(res.ctx), pvar.name) = pvar.val
                        /\ FileHolds(contexts[res.ctx], fs[PathOf(res.ctx)],
                                     pvar.name, pvar.val))

\* an item write put the content of a dict variable into a file that did
\* not hold the name
C14_Witness ==
    /\ res.op = "setitem"
    /\ res.status = "ok"
    /\ contexts[res.ctx].file_format = "JSON"
    /\ ~Has(OpenDict(pre), "a")
    /\ \E j \in DOMAIN contexts[res.ctx].pvar_index :
          /\ contexts[res.ctx].pvar_index[j] = [name |-> "a", kind |-> "dict", val |-> IdictV(2)]
          /\ PyEq(Get(OpenDict(fs[PathOf(res.ctx)]), "a"), IdictV(2))

\* C15: a second invocation of _clean_up in one process attempts no save.
C15_SweepOneShot == sweeps > 1 => swept = {}

\* C16: every context of the list has one of the three Format members as
\* its file format.
C16_FormatDefined == \A i \in Ctxs : contexts[i].file_format \in Format

\* C17: a save() whose loop meets a raising callback leaves every key of the
\* db as it was and does not call sync().
C17_EvaluateBeforeWrite ==
    [][(res'.op = "save" /\ res'.arg = "loop" /\ ncalls' = ncalls + 1)
          => (/\ contexts'[res'.ctx].db = contexts[res'.ctx].db
              /\ pc' = "idle")]_vars

\* C18: a sync() that fails at open(tempname) raises that OSError and leaves
\* the target file as it was.
C18_OpenFailureRaised ==
    (SyncReturned /\ res.arg = "open")
        => (/\ res.status = "raise"
            /\ res.exc = "OSError"
            /\ fs[PathOf(res.ctx)] = pre)

\* the step runs the loop of save() for context i
SaveLoopStep(i) ==
    \/ /\ pc \in {"idle", "sweep"}
       /\ pc' = "open"
       /\ call'.op \in {"save", "setitem", "cleanup"}
       /\ call'.ctx = i
    \/ /\ ncalls' = ncalls + 1
       /\ res'.op \in {"save", "setitem"}
       /\ res'.arg = "loop"
       /\ res'.ctx = i

\* C19: the loop of save() removes no key of the db and changes the value
\* of no key that no variable is registered under; sync() leaves the db
\* alone; and the file a successful save() committed holds every key of the
\* db with its value.
C19_SaveKeepsKeys ==
    /\ [][\A i \in Ctxs : SaveLoopStep(i)
              => \A k \in Keys(contexts[i].db) :
                    /\ Has(contexts'[i].db, k)
                    /\ ~Registered(contexts'[i], k)
                          => Get(contexts'[i].db, k) = Get(contexts[i].db, k)]_vars
    /\ [][SyncRunning => contexts' = contexts]_vars
    /\ []((res.op = "save" /\ res.status = "ok")
            => \A k \in Keys(all(res.ctx)) :
                  FileHolds(contexts[res.ctx], fs[PathOf(res.ctx)], k, Get(all(res.ctx), k)))

\* a save() rewrote a file that held a key no variable is registered under
C19_Witness ==
    /\ res.op = "save"
    /\ res.status = "ok"
    /\ pre = SavedFile
    /\ fs[PathOf(res.ctx)] # SavedFile
    /\ Registered(contexts[res.ctx], "a")
    /\ ~Registered(contexts[res.ctx], "b")
    /\ Has(OpenDict(fs[PathOf(res.ctx)]), "b")

\* C20: a context created by a get_context without auto_save has auto_save
\* false; the sweep runs sync() only for contexts whose auto_save is true,
\* and no step of the sweep changes the file of a context whose auto_save
\* is false.
C20_DefaultNoAutoSave ==
    /\ []((/\ res.op = "get_context"
           /\ res.status = "ok"
           /\ ~res.again
           /\ "auto_save" \notin res.cfg.given) => ~contexts[res.ctx].auto_save)
    /\ []((call.op = "cleanup" /\ SyncRunning) => contexts[call.ctx].auto_save)
    /\ [][call.op = "cleanup"
             => \A i \in Ctxs : ~contexts[i].auto_save => fs'[PathOf(i)] = fs[PathOf(i)]]_vars

\* the sweep has ended: it saved one context and passed over one that was
\* created without keywords and has a variable its file does not hold
C20_Witness ==
    /\ pc = "exited"
    /\ res.op = "cleanup"
    /\ swept # {}
    /\ \E i \in Ctxs :
          /\ ~contexts[i].auto_save
          /\ contexts[i].file_format = NoFormat
          /\ i \notin swept
          /\ SaveAll(contexts[i].db, contexts[i].pvar_index) # OpenDict(fs[PathOf(i)])

====
